---------------------------- MODULE Spec2Model ----------------------------
(***************************************************************************)
(* Model of backend/server.py of the automated DJ system:                  *)
(*   - TrackFinder.analyze_audio  (envelope and highlight extraction),     *)
(*   - POST /mixes followed by the background job MixCreator.create_mix.   *)
(*                                                                         *)
(* Times.  librosa works in samples: a time of x seconds of a track with   *)
(* sample rate sr is held as the integer x*sr (a number of samples), so    *)
(* track.duration, start, end and peak_time are exact rationals over sr.   *)
(* pydub works in integer milliseconds.  ToMs is int(seconds * 1000).      *)
(*                                                                         *)
(* Optional fields.  None is the empty set, a set value v is {v}.          *)
(*                                                                         *)
(* Library behaviour the code relies on:                                   *)
(*   - scipy find_peaks returns ascending interior indices (never the      *)
(*     first or the last frame), pairwise at least `distance` apart, and   *)
(*     raises ValueError when distance < 1;                                *)
(*   - librosa.feature.rms (center=True) yields 1 + n \div hop frames;     *)
(*   - pydub AudioSegment.overlay returns a segment of the length of the   *)
(*     segment it is called on (the overlaid one is truncated), while      *)
(*     `+=` appends;  a slice [a:b] is clamped to the segment.             *)
(***************************************************************************)
EXTENDS Integers, Sequences, FiniteSets, TLC

\* ------------------------------------------------------------- bounds
MaxTracks == 3      \* tracks handed to one create_mix job
MaxPeaks == 4       \* peaks the peak finder returns for one track
MaxIntensity == 2   \* distinct smoothed-RMS levels of the analysed peaks

\* ------------------------------------------------- program constants
hop_length == 1024
HalfWindowSec == 10
PeakSpacingSec == 5
TopHighlights == 3
FadeMs == 2000
HalfFallbackMs == 15000

None == {}
Some(v) == {v}
TheValue(o) == CHOOSE v \in o : TRUE

Min(a, b) == IF a <= b THEN a ELSE b
Max(a, b) == IF a >= b THEN a ELSE b

\* ===================================================== analyze_audio
\* number of RMS frames of a signal of n samples
FrameCount(n) == 1 + (n \div hop_length)

\* the `distance` argument handed to find_peaks
PeakDistance(sr) == (sr \div hop_length) * PeakSpacingSec

\* librosa.frames_to_time, in samples (seconds * sr)
FramesToTime(peak) == peak * hop_length

\* mutant: the end of the window is not clamped to the duration
HighlightEnd_NoClamp(n, sr, time_point) == time_point + HalfWindowSec * sr

HighlightStart(sr, time_point) == Max(0, time_point - HalfWindowSec * sr)
HighlightEnd(n, sr, time_point) == Min(n, time_point + HalfWindowSec * sr)

\* one entry of `highlights` for a peak [frame, intensity]
MakeHighlight(n, sr, p) ==
    LET time_point == FramesToTime(p.frame)
    IN  [start     |-> HighlightStart(sr, time_point),
         end       |-> HighlightEnd(n, sr, time_point),
         peak_time |-> time_point,
         intensity |-> p.intensity]

\* list.sort(key=intensity, reverse=True): stable, descending.  h stood before
\* every element of s in the unsorted list, so it stays before its equals.
RECURSIVE InsertByIntensity(_, _)
InsertByIntensity(h, s) ==
    IF s = <<>> THEN <<h>>
    ELSE IF h.intensity >= s[1].intensity THEN <<h>> \o s
    ELSE <<s[1]>> \o InsertByIntensity(h, Tail(s))

RECURSIVE SortByIntensity(_)
SortByIntensity(s) ==
    IF s = <<>> THEN <<>>
    ELSE InsertByIntensity(s[1], SortByIntensity(Tail(s)))

TakeTop(s) == SubSeq(s, 1, Min(Len(s), TopHighlights))

\* the highlights analyze_audio stores for peaks (ascending frames), lines 185-201
Highlights(n, sr, peaks) ==
    TakeTop(SortByIntensity([k \in 1..Len(peaks) |-> MakeHighlight(n, sr, peaks[k])]))

\* ==================================================== create_mix job
\* int(seconds * 1000) of a time held in samples
ToMs(x, sr) == (x * 1000) \div sr

\* len(audio[a:b]) for a pydub segment of length L ms and 0 <= a
SliceLen(L, a, b) == Max(0, Min(b, L) - Min(a, L))

\* sort key of line 219, as the rational num/den
KeyNum(t) == IF t.highlights = <<>> THEN 0 ELSE
    LET RECURSIVE Sum(_)
        Sum(s) == IF s = <<>> THEN 0 ELSE s[1].intensity + Sum(Tail(s))
    IN Sum(t.highlights)
KeyDen(t) == IF t.highlights = <<>> THEN 1 ELSE Len(t.highlights)

\* key(a) >= key(b)
KeyGE(a, b) == KeyNum(a) * KeyDen(b) >= KeyNum(b) * KeyDen(a)

\* intensity of the excerpt taken from a track (its highlights[0]; 0 if none)
TopIntensity(t) == IF t.highlights = <<>> THEN 0 ELSE t.highlights[1].intensity

RECURSIVE InsertByKey(_, _)
InsertByKey(t, s) ==
    IF s = <<>> THEN <<t>>
    ELSE IF KeyGE(t, s[1]) THEN <<t>> \o s
    ELSE <<s[1]>> \o InsertByKey(t, Tail(s))

\* mutant: the sort of lines 218-220 left out
SortedTracks_Unsorted(s) == s

\* tracks.sort(key=mean intensity, reverse=True): stable, descending
RECURSIVE SortedTracks(_)
SortedTracks(s) ==
    IF s = <<>> THEN <<>>
    ELSE InsertByKey(s[1], SortedTracks(Tail(s)))

\* lines 238-254: the [start_ms, end_ms) slice taken from a track's audio
ExcerptStart(t) ==
    IF t.highlights # <<>>
    THEN ToMs(t.highlights[1].start, t.sr)
    ELSE Max(0, (t.len \div 2) - HalfFallbackMs)

ExcerptEnd(t) ==
    IF t.highlights # <<>>
    THEN Min(ToMs(t.highlights[1].end, t.sr), t.len)
    ELSE Min(t.len, (t.len \div 2) + HalfFallbackMs)

\* len(segment) after the slice and the two fades (fades keep the length of
\* a segment of at least FadeMs)
SegmentLen(t) == SliceLen(t.len, ExcerptStart(t), ExcerptEnd(t))

\* final_mix.overlay(segment, position): where the segment lands in a base of
\* length L (a negative position counts from the end, as a Python slice does)
OverlayAt(L, position) == IF position >= 0 THEN position ELSE L + position

\* how many ms of a segment of length n survive an overlay landing at `at`
\* in a base of length L: the result keeps the length of the base
OverlayPlaced(L, at, n) == IF at >= L THEN 0 ELSE Min(n, L - at)

\* ------------------------------------------------------------ inputs
\* peaks as find_peaks may return them for nf frames and spacing d: ascending
\* interior frames, at least d apart, each with the smoothed RMS at the peak
PeakFrames(nf) == {f \in 1..(nf - 2) : f = 1 \/ f = nf - 2 \/ f % PeakSpacingSec = 0}

RECURSIVE PeakListsFrom(_, _, _, _)
PeakListsFrom(nf, d, lo, k) ==
    {<<>>} \cup
    (IF k = 0 THEN {}
     ELSE UNION {{<<[frame |-> f, intensity |-> v]>> \o rest :
                     rest \in PeakListsFrom(nf, d, f + d, k - 1)} :
                 f \in {g \in PeakFrames(nf) : g >= lo}, v \in 1..MaxIntensity})

PeakLists(nf, d) == PeakListsFrom(nf, d, 1, MaxPeaks)

\* an analysed, downloaded track as download_track hands it to create_mix:
\* path is what line 230/235 finds at local_path, len is len(audio) in ms
Track(path, len, n, sr, peaks) ==
    [path |-> path, len |-> len, sr |-> sr, highlights |-> Highlights(n, sr, peaks)]

Peak(f, v) == [frame |-> f, intensity |-> v]

\* the kinds of track a job is run on (60 s and 20 s sources at 1024 Hz)
TrackKinds ==
    { Track("ok", 60000, 61440, 1024, <<Peak(30, 2)>>),
      Track("ok", 60000, 61440, 1024, <<Peak(5, 1), Peak(30, 3), Peak(50, 1)>>),
      Track("ok", 35000, 61440, 1024, <<Peak(30, 1)>>),
      Track("ok", 60000, 61440, 1024, <<>>),
      Track("ok", 20001, 20481, 1024, <<>>),
      Track("missing", 60000, 61440, 1024, <<Peak(30, 3)>>),
      Track("corrupt", 60000, 61440, 1024, <<>>) }

WithIds(f) == [k \in DOMAIN f |-> [id |-> k] @@ f[k]]

\* -------------------------------------------------------------- state
VARIABLES
    tracks,            \* the list handed to create_mix (sorted in place)
    pc,                \* position in POST /mixes and then in the job
    i,                 \* enumerate index of the for loop (0-based)
    final_mix,         \* [len: ms, parts: what was written into the buffer]
    current_position,  \* cursor, ms
    excerpts,          \* segments selected so far, in processing order
    mix,               \* the Mix object shared by the handler and the job
    db,                \* the db.mixes collection
    exported,          \* a file exists at mix_path
    response,          \* last answer of GET /mixes/{id} or .../stream
    apc,               \* position in analyze_audio
    signal,            \* y, sr and the RMS curve of the analysed file
    track,             \* the Track object analyze_audio fills in
    peaks,             \* result of find_peaks
    highlights         \* the local list `highlights`

mixVars == <<tracks, pc, i, final_mix, current_position, excerpts, mix, db,
             exported, response>>
anVars == <<apc, signal, track, peaks, highlights>>
vars == <<mixVars, anVars>>

NoResponse == [code |-> 0, body |-> None, file |-> None]
EmptyMix == [len |-> 0, parts |-> {}]

AnalysisIdle ==
    /\ apc = "idle"
    /\ signal = [n |-> 0, sr |-> hop_length, silent |-> TRUE]
    /\ track = [duration |-> None, waveform_data |-> None, highlights |-> None]
    /\ peaks = <<>>
    /\ highlights = <<>>

\* POST /mixes after the downloads: the Mix object of lines 392-397 exists,
\* nothing is persisted yet
Init ==
    /\ \E n \in 0..MaxTracks : \E f \in [1..n -> TrackKinds] : tracks = WithIds(f)
    /\ pc = "insert"
    /\ i = 0
    /\ final_mix = EmptyMix
    /\ current_position = 0
    /\ excerpts = <<>>
    /\ mix = [status |-> "processing", file_path |-> None, duration |-> None]
    /\ db = {}
    /\ exported = FALSE
    /\ response = NoResponse
    /\ AnalysisIdle

\* ---------------------------------------------------- POST /mixes tail
\* lines 398-403: insert_one, add_task, return mix
InsertMix ==
    /\ pc = "insert"
    /\ db' = {mix}
    /\ pc' = "sort"
    /\ UNCHANGED <<tracks, i, final_mix, current_position, excerpts, mix,
                   exported, response, anVars>>

\* lines 404-406: insert_one raised, HTTP 500, no job is scheduled
InsertRaises ==
    /\ pc = "insert"
    /\ pc' = "http500"
    /\ UNCHANGED <<tracks, i, final_mix, current_position, excerpts, mix, db,
                   exported, response, anVars>>

\* ------------------------------------------------ MixCreator.create_mix
\* lines 217-227
SortTracks ==
    /\ pc = "sort"
    /\ tracks' = SortedTracks(tracks)
    /\ final_mix' = EmptyMix
    /\ current_position' = 0
    /\ i' = 0
    /\ pc' = "loop"
    /\ UNCHANGED <<excerpts, mix, db, exported, response, anVars>>

InLoop == pc = "loop" /\ i < Len(tracks)
Current == tracks[i + 1]

\* lines 230-231
SkipMissing ==
    /\ InLoop
    /\ Current.path = "missing"
    /\ i' = i + 1
    /\ UNCHANGED <<tracks, pc, final_mix, current_position, excerpts, mix, db,
                   exported, response, anVars>>

\* line 235 raises, lines 268-270
LoadRaises ==
    /\ InLoop
    /\ Current.path = "corrupt"
    /\ i' = i + 1
    /\ UNCHANGED <<tracks, pc, final_mix, current_position, excerpts, mix, db,
                   exported, response, anVars>>

\* what lines 235-257 select from the current track
Excerpt(t, at, placed) ==
    [id |-> t.id, start_ms |-> ExcerptStart(t), end_ms |-> ExcerptEnd(t),
     len |-> SegmentLen(t), at |-> at, placed |-> placed]

\* lines 235-257, 264-266: i = 0, the segment is appended
AppendFirst ==
    /\ InLoop
    /\ Current.path = "ok"
    /\ i = 0
    /\ LET n == SegmentLen(Current) IN
        /\ final_mix' = [len |-> final_mix.len + n,
                         parts |-> final_mix.parts \cup
                             (IF n > 0 THEN {[id |-> Current.id, at |-> final_mix.len, n |-> n]}
                              ELSE {})]
        /\ current_position' = current_position + n
        /\ excerpts' = Append(excerpts, Excerpt(Current, final_mix.len, n))
    /\ i' = i + 1
    /\ UNCHANGED <<tracks, pc, mix, db, exported, response, anVars>>

\* lines 235-257, 260-263: i > 0, the segment is overlaid 2 s before the cursor
OverlayNext ==
    /\ InLoop
    /\ Current.path = "ok"
    /\ i > 0
    /\ LET n == SegmentLen(Current)
           at == OverlayAt(final_mix.len, current_position - FadeMs)
           placed == OverlayPlaced(final_mix.len, at, n)
       IN
        /\ at >= 0
        /\ final_mix' = [final_mix EXCEPT !.parts = @ \cup
                             (IF placed > 0 THEN {[id |-> Current.id, at |-> at, n |-> placed]}
                              ELSE {})]
        /\ current_position' = current_position + n - FadeMs
        /\ excerpts' = Append(excerpts, Excerpt(Current, at, placed))
    /\ i' = i + 1
    /\ UNCHANGED <<tracks, pc, mix, db, exported, response, anVars>>

\* lines 260-263 with the cursor before the start of the buffer (nothing was
\* appended yet): the slice of the base at a position before its start either
\* raises inside pydub (caught at 268-270, cursor untouched) or yields an
\* empty slice (the overlay returns the empty base, the cursor advances)
OverlayOutOfRange ==
    /\ InLoop
    /\ Current.path = "ok"
    /\ i > 0
    /\ OverlayAt(final_mix.len, current_position - FadeMs) < 0
    /\ \E raises \in BOOLEAN :
         current_position' = IF raises THEN current_position
                             ELSE current_position + SegmentLen(Current) - FadeMs
    /\ excerpts' = Append(excerpts, Excerpt(Current, 0, 0))
    /\ i' = i + 1
    /\ UNCHANGED <<tracks, pc, final_mix, mix, db, exported, response, anVars>>

LoopDone ==
    /\ pc = "loop"
    /\ i >= Len(tracks)
    /\ pc' = "export"
    /\ UNCHANGED <<tracks, i, final_mix, current_position, excerpts, mix, db,
                   exported, response, anVars>>

\* line 273: the file is written
ExportOk ==
    /\ pc = "export"
    /\ exported' = TRUE
    /\ pc' = "set_path"
    /\ UNCHANGED <<tracks, i, final_mix, current_position, excerpts, mix, db,
                   response, anVars>>

\* line 273 raises (encoder failure, unwritable directory)
ExportRaises ==
    /\ pc = "export"
    /\ pc' = "except"
    /\ UNCHANGED <<tracks, i, final_mix, current_position, excerpts, mix, db,
                   exported, response, anVars>>

\* line 276
SetFilePath ==
    /\ pc = "set_path"
    /\ mix' = [mix EXCEPT !.file_path = Some("mix_path")]
    /\ pc' = "set_duration"
    /\ UNCHANGED <<tracks, i, final_mix, current_position, excerpts, db,
                   exported, response, anVars>>

\* line 277: len(final_mix) / 1000, a float, held as the rational num/den
SetDuration ==
    /\ pc = "set_duration"
    /\ mix' = [mix EXCEPT !.duration = Some([num |-> final_mix.len, den |-> 1000])]
    /\ pc' = "set_status"
    /\ UNCHANGED <<tracks, i, final_mix, current_position, excerpts, db,
                   exported, response, anVars>>

\* line 278
SetCompleted ==
    /\ pc = "set_status"
    /\ mix' = [mix EXCEPT !.status = "completed"]
    /\ pc' = "update"
    /\ UNCHANGED <<tracks, i, final_mix, current_position, excerpts, db,
                   exported, response, anVars>>

\* mutant: the success path writes the status alone, as the failure path does
UpdateOk_StatusOnly ==
    /\ pc = "update"
    /\ db' = {[r EXCEPT !.status = mix.status] : r \in db}
    /\ pc' = "returned"
    /\ UNCHANGED <<tracks, i, final_mix, current_position, excerpts, mix,
                   exported, response, anVars>>

\* lines 281-286: one $set of the whole document, then return mix
UpdateOk ==
    /\ pc = "update"
    /\ db' = {mix : r \in db}
    /\ pc' = "returned"
    /\ UNCHANGED <<tracks, i, final_mix, current_position, excerpts, mix,
                   exported, response, anVars>>

\* lines 281-284 raise (database unreachable): nothing is written
UpdateRaises ==
    /\ pc = "update"
    /\ pc' = "except"
    /\ UNCHANGED <<tracks, i, final_mix, current_position, excerpts, mix, db,
                   exported, response, anVars>>

\* lines 287-289
SetFailed ==
    /\ pc = "except"
    /\ mix' = [mix EXCEPT !.status = "failed"]
    /\ pc' = "fail_update"
    /\ UNCHANGED <<tracks, i, final_mix, current_position, excerpts, db,
                   exported, response, anVars>>

\* lines 290-294: $set of status only, then the exception is re-raised
FailUpdateOk ==
    /\ pc = "fail_update"
    /\ db' = {[r EXCEPT !.status = "failed"] : r \in db}
    /\ pc' = "raised"
    /\ UNCHANGED <<tracks, i, final_mix, current_position, excerpts, mix,
                   exported, response, anVars>>

\* lines 290-293 raise: the job ends with that exception, nothing is written
FailUpdateRaises ==
    /\ pc = "fail_update"
    /\ pc' = "raised"
    /\ UNCHANGED <<tracks, i, final_mix, current_position, excerpts, mix, db,
                   exported, response, anVars>>

\* --------------------------------------------------------- the readers
\* GET /mixes/{id}, lines 418-425
GetMix ==
    /\ pc # "insert"
    /\ response' = IF db = {} THEN [code |-> 404, body |-> None, file |-> None]
                   ELSE [code |-> 200, body |-> db, file |-> None]
    /\ UNCHANGED <<tracks, pc, i, final_mix, current_position, excerpts, mix,
                   db, exported, anVars>>

\* GET /mixes/{id}/stream, lines 427-438
StreamMix ==
    /\ pc # "insert"
    /\ response' =
         IF db = {} THEN [code |-> 404, body |-> None, file |-> None]
         ELSE LET m == TheValue(db) IN
              IF m.status # "completed" \/ m.file_path = None
              THEN [code |-> 400, body |-> None, file |-> None]
              ELSE [code |-> 200, body |-> None, file |-> m.file_path]
    /\ UNCHANGED <<tracks, pc, i, final_mix, current_position, excerpts, mix,
                   db, exported, anVars>>

JobDone == pc \in {"returned", "raised"}

Next ==
    \/ InsertMix \/ InsertRaises
    \/ SortTracks
    \/ SkipMissing \/ LoadRaises \/ AppendFirst \/ OverlayNext \/ OverlayOutOfRange
    \/ LoopDone
    \/ ExportOk \/ ExportRaises
    \/ SetFilePath \/ SetDuration \/ SetCompleted
    \/ UpdateOk \/ UpdateRaises
    \/ SetFailed \/ FailUpdateOk \/ FailUpdateRaises
    \/ GetMix \/ StreamMix

Spec == Init /\ [][Next]_vars

\* ===================================== TrackFinder.analyze_audio, stepwise
\* the decoded files analysed: n samples at sr Hz, silent or not
AudioSamples == {0, 3 * hop_length + 500, 25 * hop_length + 300}
SampleRates == {hop_length \div 2, hop_length, 2 * hop_length}
Signals == [n : AudioSamples, sr : SampleRates, silent : BOOLEAN]

\* the RMS curve of line 172: one value per frame
RmsCurve(sig) ==
    [k \in 1..FrameCount(sig.n) |-> IF sig.silent THEN 0 ELSE 1 + (k % 3)]

RECURSIVE MaxOf(_)
MaxOf(s) == IF s = <<>> THEN 0 ELSE Max(s[1], MaxOf(Tail(s)))

\* line 175: rms / max(rms) as rationals if max(rms) > 0, else rms itself
Envelope(rms) ==
    IF MaxOf(rms) > 0
    THEN [k \in DOMAIN rms |-> [num |-> rms[k], den |-> MaxOf(rms)]]
    ELSE [k \in DOMAIN rms |-> [num |-> rms[k], den |-> 1]]

MixIdle ==
    /\ tracks = <<>>
    /\ pc = "idle"
    /\ i = 0
    /\ final_mix = EmptyMix
    /\ current_position = 0
    /\ excerpts = <<>>
    /\ mix = [status |-> "pending", file_path |-> None, duration |-> None]
    /\ db = {}
    /\ exported = FALSE
    /\ response = NoResponse

\* download_track calls analyze_audio on a Track created from a search entry
InitAnalysis ==
    /\ apc = "load"
    /\ signal \in Signals
    /\ track = [duration |-> None, waveform_data |-> None, highlights |-> None]
    /\ peaks = <<>>
    /\ highlights = <<>>
    /\ MixIdle

InTry == apc \in {"load", "duration", "rms", "peaks", "build", "store"}

\* line 164
Load ==
    /\ apc = "load"
    /\ apc' = "duration"
    /\ UNCHANGED <<signal, track, peaks, highlights, mixVars>>

\* line 167: the duration in seconds is n / sr, held as n
GetDuration ==
    /\ apc = "duration"
    /\ track' = [track EXCEPT !.duration = Some(signal.n)]
    /\ apc' = "rms"
    /\ UNCHANGED <<signal, peaks, highlights, mixVars>>

\* lines 170-175
ComputeEnvelope ==
    /\ apc = "rms"
    /\ track' = [track EXCEPT !.waveform_data = Some(Envelope(RmsCurve(signal)))]
    /\ apc' = "peaks"
    /\ UNCHANGED <<signal, peaks, highlights, mixVars>>

\* lines 179-185: smoothing, then find_peaks, which answers with some list of
\* peaks that respects its contract (none on a silent signal)
FindPeaks ==
    /\ apc = "peaks"
    /\ PeakDistance(signal.sr) >= 1
    /\ \E ps \in PeakLists(FrameCount(signal.n), PeakDistance(signal.sr)) :
         /\ signal.silent => ps = <<>>
         /\ peaks' = ps
    /\ highlights' = <<>>
    /\ apc' = "build"
    /\ UNCHANGED <<signal, track, mixVars>>

\* line 182 with sr < hop_length: distance = 0, find_peaks raises ValueError
FindPeaksRaises ==
    /\ apc = "peaks"
    /\ PeakDistance(signal.sr) < 1
    /\ apc' = "except"
    /\ UNCHANGED <<signal, track, peaks, highlights, mixVars>>

\* lines 186-197, one iteration
BuildHighlight ==
    /\ apc = "build"
    /\ peaks # <<>>
    /\ highlights' = Append(highlights, MakeHighlight(signal.n, signal.sr, Head(peaks)))
    /\ peaks' = Tail(peaks)
    /\ UNCHANGED <<apc, signal, track, mixVars>>

BuildDone ==
    /\ apc = "build"
    /\ peaks = <<>>
    /\ apc' = "store"
    /\ UNCHANGED <<signal, track, peaks, highlights, mixVars>>

\* lines 199-203
StoreHighlights ==
    /\ apc = "store"
    /\ track' = [track EXCEPT !.highlights = Some(TakeTop(SortByIntensity(highlights)))]
    /\ apc' = "returned"
    /\ UNCHANGED <<signal, peaks, highlights, mixVars>>

\* any statement of the try block (162-203) raises: unreadable file at 164,
\* empty signal, out of memory, ...
AnalysisRaises ==
    /\ InTry
    /\ apc' = "except"
    /\ UNCHANGED <<signal, track, peaks, highlights, mixVars>>

\* mutant: the handler resets the highlights alone
Except_HighlightsOnly ==
    /\ apc = "except"
    /\ track' = [track EXCEPT !.highlights = Some(<<>>)]
    /\ apc' = "failed"
    /\ UNCHANGED <<signal, peaks, highlights, mixVars>>

\* lines 204-207
Except ==
    /\ apc = "except"
    /\ track' = [track EXCEPT !.waveform_data = Some(<<>>), !.highlights = Some(<<>>)]
    /\ apc' = "failed"
    /\ UNCHANGED <<signal, peaks, highlights, mixVars>>

NextAnalysis ==
    \/ Load \/ GetDuration \/ ComputeEnvelope
    \/ FindPeaks \/ FindPeaksRaises
    \/ BuildHighlight \/ BuildDone \/ StoreHighlights
    \/ AnalysisRaises \/ Except

SpecAnalysis == InitAnalysis /\ [][NextAnalysis]_vars

\* ============================================================ properties
Terminal == {"completed", "failed"}

Rank(status) ==
    CASE status = "pending" -> 0
      [] status = "processing" -> 1
      [] status \in Terminal -> 2

\* the for loop of create_mix is over
LoopFinished ==
    pc \in {"export", "set_path", "set_duration", "set_status", "update",
            "returned", "except", "fail_update", "raised"}

Range(s) == {s[k] : k \in DOMAIN s}
TrackById(id) == CHOOSE t \in Range(tracks) : t.id = id

RECURSIVE SumLen(_)
SumLen(s) == IF s = <<>> THEN 0 ELSE s[1].len + SumLen(Tail(s))

RECURSIVE SumIntensity(_)
SumIntensity(hs) == IF hs = <<>> THEN 0 ELSE hs[1].intensity + SumIntensity(Tail(hs))

\* mean(a) >= mean(b) of two highlight lists, the mean of none being 0
MeanGE(a, b) ==
    SumIntensity(a) * Max(1, Len(b)) >= SumIntensity(b) * Max(1, Len(a))

Forward(m, m2) ==
    /\ Rank(m2.status) >= Rank(m.status)
    /\ m.status \in Terminal => m2 = m

\* C1: the status of a Mix only moves forward along pending -> processing ->
\* {completed, failed}, never from one terminal value to the other, and once
\* it is completed or failed no field of the Mix changes (the Mix object and
\* the persisted record alike).
C1_StatusForwardThenFrozen ==
    [][ /\ Forward(mix, mix')
        /\ \A r \in db : \A r2 \in db' : Forward(r, r2) ]_vars

Complete(m) == m.file_path # None /\ m.duration # None /\ exported

\* C2: a Mix whose status is completed, in the object create_mix works on and
\* returns, in the persisted record and in what GET /mixes/{id} answered, has
\* a file_path naming an exported output and a duration.
C2_CompletedHasOutput ==
    /\ mix.status = "completed" => Complete(mix)
    /\ \A r \in db : r.status = "completed" => Complete(r)
    /\ \A r \in response.body : r.status = "completed" => Complete(r)

C2_Witness ==
    /\ pc = "returned"
    /\ mix.status = "completed"
    /\ response.code = 200
    /\ \E r \in response.body : r.status = "completed"

\* C3: a Mix whose status is failed has no file locator, on the Mix object
\* and in the persisted record.
C3_FailedHasNoLocator ==
    /\ mix.status = "failed" => mix.file_path = None
    /\ \A r \in db : r.status = "failed" => r.file_path = None

Faulty(t) == t.path # "ok"

\* C4: when exactly one track of the list is missing or unreadable and the
\* job returns, the Mix is completed and every other track has audio in
\* final_mix.
C4_FaultIsolation ==
    (pc = "returned" /\ Cardinality({t \in Range(tracks) : Faulty(t)}) = 1)
    => /\ mix.status = "completed"
       /\ \A t \in Range(tracks) :
            ~Faulty(t) => \E p \in final_mix.parts : p.id = t.id /\ p.n > 0

\* C5: after the loop, with at least 2 excerpts len(final_mix) is strictly
\* less than the sum of their lengths, and with exactly 1 excerpt it equals
\* that excerpt's length.
C5_CrossfadeDuration ==
    LoopFinished =>
        /\ Len(excerpts) >= 2 => final_mix.len < SumLen(excerpts)
        /\ Len(excerpts) = 1 => final_mix.len = excerpts[1].len

\* C6: after the loop, every readable track without highlights has an excerpt
\* centred on its midpoint, inside [0, L], of min(30000, L) ms, and that
\* excerpt has audio in final_mix.
C6_FallbackContributes ==
    LoopFinished =>
        \A t \in Range(tracks) :
            (t.path = "ok" /\ t.highlights = <<>>) =>
                \E k \in DOMAIN excerpts :
                    LET e == excerpts[k] IN
                    /\ e.id = t.id
                    /\ 0 <= e.start_ms /\ e.start_ms <= e.end_ms /\ e.end_ms <= t.len
                    /\ e.len = Min(2 * HalfFallbackMs, t.len)
                    /\ e.start_ms + e.end_ms \in {t.len - 1, t.len, t.len + 1}
                    /\ e.placed > 0

\* C7: the excerpts are taken in non-increasing order of the intensity of the
\* highlight each one was cut from (highlights[0]; 0 without highlights).
C7_OrderedByExcerptIntensity ==
    \A a, b \in DOMAIN excerpts :
        a < b => TopIntensity(TrackById(excerpts[a].id))
                    >= TopIntensity(TrackById(excerpts[b].id))

\* C7 (amended): the excerpts are taken in non-increasing order of the mean
\* of the intensities of all highlights of their track (0 without highlights).
C7_OrderedByMeanIntensity ==
    \A a, b \in DOMAIN excerpts :
        a < b => MeanGE(TrackById(excerpts[a].id).highlights,
                        TrackById(excerpts[b].id).highlights)

\* three excerpts were taken and the sort moved a later track to the front
C7_Witness ==
    /\ LoopFinished
    /\ Len(excerpts) = 3
    /\ \E a, b \in DOMAIN excerpts : a < b /\ excerpts[a].id > excerpts[b].id

\* C10: once the job is over (returned or raised) the persisted Mix is
\* completed or failed, not processing.
C10_JobEndsPersistedTerminal ==
    JobDone => \A r \in db : r.status \in Terminal

WindowOk(h, n, sr) ==
    /\ 0 <= h.start
    /\ h.start <= h.peak_time
    /\ h.peak_time <= h.end
    /\ h.end <= n
    /\ h.end - h.start <= 2 * HalfWindowSec * sr

\* C8: every Highlight analyze_audio builds or stores satisfies
\* 0 <= start <= peak_time <= end <= track_duration and end - start <= 20 s
\* (times in samples: seconds * sr).
C8_HighlightBounds ==
    /\ \A k \in DOMAIN highlights : WindowOk(highlights[k], signal.n, signal.sr)
    /\ \A hs \in track.highlights : \A k \in DOMAIN hs :
         /\ track.duration # None
         /\ WindowOk(hs[k], TheValue(track.duration), signal.sr)

\* three highlights were stored, one clamped at the end of the track
C8_Witness ==
    /\ apc = "returned"
    /\ \E hs \in track.highlights :
         /\ Len(hs) = TopHighlights
         /\ \E k \in DOMAIN hs :
              /\ hs[k].end = signal.n
              /\ hs[k].end - hs[k].start < 2 * HalfWindowSec * signal.sr

IsSequence(o) == \A s \in o : DOMAIN s = 1..Len(s)

\* C9: when analyze_audio is over, waveform_data and highlights are both
\* sequences, not None; after a failure both are the empty sequence.
C9_AnalysisLeavesSequences ==
    apc \in {"returned", "failed"} =>
        /\ track.waveform_data # None /\ IsSequence(track.waveform_data)
        /\ track.highlights # None /\ IsSequence(track.highlights)
        /\ apc = "failed" =>
             /\ track.waveform_data = Some(<<>>)
             /\ track.highlights = Some(<<>>)

\* the analysis failed after the envelope was computed and a highlight built
C9_Witness ==
    /\ apc = "failed"
    /\ highlights # <<>>
    /\ track.waveform_data = Some(<<>>)

\* what the cursor rule gives for k >= 1 excerpts: L1 + ... + Lk - 2 s * (k - 1)
CrossfadedLen(es) == SumLen(es) - FadeMs * (Len(es) - 1)

\* C11: when every track of the list is readable and k >= 1 excerpts were
\* taken, the cursor ends at L1 + ... + Lk - 2000 * (k - 1) ms, len(final_mix)
\* equals that final cursor value, and so does the duration of a completed
\* Mix (three 20 s excerpts give 56 s).
C11_DurationIsFinalCursor ==
    (LoopFinished /\ Len(excerpts) >= 1 /\ \A t \in Range(tracks) : ~Faulty(t))
    => /\ current_position = CrossfadedLen(excerpts)
       /\ final_mix.len = current_position
       /\ mix.status = "completed" =>
            mix.duration = Some([num |-> CrossfadedLen(excerpts), den |-> 1000])

\* C12: when the job is over the Mix is completed exactly when the export
\* succeeded and failed exactly when it did not, on the Mix object and in
\* whatever terminal status was persisted; no step after a successful export
\* turns the outcome into failed.
C12_OutcomeFollowsExport ==
    JobDone =>
        /\ mix.status = "completed" <=> exported
        /\ mix.status = "failed" <=> ~exported
        /\ \A r \in db : /\ r.status = "completed" => exported
                         /\ r.status = "failed" => ~exported

=============================================================================
